---- MODULE Spec2Model ----
(***************************************************************************)
(* Port scanning order selection: PortStrategy::pick / PortStrategy::order *)
(* (src/src/port_strategy/mod.rs) together with the range_iterator         *)
(* permutation walk that RandomRange::generate delegates to.               *)
(***************************************************************************)
EXTENDS Integers, Sequences, FiniteSets, TLC

(* ------------------------------ bounds -------------------------------- *)
\* most ranges in one PortRange
MaxRanges == 2
\* most ports one PortRange may denote in total
MaxTotal == 3
\* longest explicit port list
MaxPorts == 3
\* most order() calls on one strategy
MaxCalls == 2
\* how far the walk's modulus may be padded above the interval length
MaxPad == 6

(* ----------------------------- data model ----------------------------- *)
\* u16::MAX, the largest port
U16Max == 65535

ScanOrder == {"Serial", "Random"}

None == [some |-> FALSE]
Some(v) == [some |-> TRUE, v |-> v]

\* port values the inputs are drawn from: the low end and the top of u16
PortVals == {0, 1, 2, U16Max - 1, U16Max}

\* (start, end) pairs, well formed (start <= end) and inverted (start > end)
Ranges == {r \in PortVals \X PortVals : r[2] - r[1] + 1 <= MaxTotal}

RangeLen(r) == IF r[1] > r[2] THEN 0 ELSE r[2] - r[1] + 1

RECURSIVE TotalLen(_)
TotalLen(rs) == IF rs = <<>> THEN 0 ELSE RangeLen(Head(rs)) + TotalLen(Tail(rs))

RangeSets == {rs \in UNION {[1 .. k -> Ranges] : k \in 0 .. MaxRanges} : TotalLen(rs) <= MaxTotal}

PortLists == UNION {[1 .. k -> PortVals] : k \in 0 .. MaxPorts}

\* ranges handed to pick next to an explicit list: one well formed, one not
SpareRanges == {<<0, 1>>, <<1, 0>>}

(* ------------------------- rand: slice shuffle ------------------------ *)
\* a swap that overwrites position i and forgets what it held
SwapOverwrite(s, i, j) == [s EXCEPT ![i] = s[j]]

Swap(s, i, j) == [s EXCEPT ![i] = s[j], ![j] = s[i]]

\* Sattolo's variant: the draw never picks position i itself
RECURSIVE ShuffleFromSattolo(_, _)
ShuffleFromSattolo(s, i) ==
    IF i < 2 THEN {s}
    ELSE UNION {ShuffleFromSattolo(Swap(s, i, j), i - 1) : j \in 1 .. (i - 1)}

\* Fisher-Yates from position i down: swap(i, gen_range(0..=i)) for every
\* outcome of the draw
RECURSIVE ShuffleFrom(_, _)
ShuffleFrom(s, i) ==
    IF i < 2 THEN {s}
    ELSE UNION {ShuffleFrom(Swap(s, i, j), i - 1) : j \in 1 .. i}

Shuffle(s) == ShuffleFrom(s, Len(s))

(* ------------------------ SerialRange::generate ----------------------- *)
\* (start..end).collect(): the half-open range
RECURSIVE InclusiveRangeExclusive(_, _)
InclusiveRangeExclusive(start, end) ==
    IF start >= end THEN <<>>
    ELSE <<start>> \o InclusiveRangeExclusive(start + 1, end)

\* a range read as the unordered pair of its ends
RECURSIVE InclusiveRangeUnordered(_, _)
InclusiveRangeUnordered(start, end) ==
    IF start > end THEN InclusiveRangeUnordered(end, start)
    ELSE IF start = end THEN <<start>>
    ELSE <<start>> \o InclusiveRangeUnordered(start + 1, end)

\* (start..=end).collect(): empty when start > end, never steps past end
RECURSIVE InclusiveRange(_, _)
InclusiveRange(start, end) ==
    IF start > end THEN <<>>
    ELSE IF start = end THEN <<start>>
    ELSE <<start>> \o InclusiveRange(start + 1, end)

\* a sweep that coalesces: a port already emitted is not emitted again
RECURSIVE SerialGenerateDedup(_)
SerialGenerateDedup(ranges) ==
    IF ranges = <<>> THEN <<>>
    ELSE LET init == SerialGenerateDedup(SubSeq(ranges, 1, Len(ranges) - 1))
             last == InclusiveRange(ranges[Len(ranges)][1], ranges[Len(ranges)][2])
         IN init \o SelectSeq(last, LAMBDA v : \A i \in 1 .. Len(init) : init[i] # v)

RECURSIVE SerialGenerate(_)
SerialGenerate(ranges) ==
    IF ranges = <<>> THEN <<>>
    ELSE InclusiveRange(Head(ranges)[1], Head(ranges)[2]) \o SerialGenerate(Tail(ranges))

(* -------------------- range_iterator: permutation walk ---------------- *)
RECURSIVE Gcd(_, _)
Gcd(a, b) == IF b = 0 THEN a ELSE Gcd(b, a % b)

IsPrime(p) == p > 1 /\ \A d \in 2 .. (p - 1) : p % d # 0

\* the conditions without the one on the increment
FullPeriodAnyIncrement(m, a, c) ==
    /\ \A p \in 2 .. m : (IsPrime(p) /\ m % p = 0) => a % p = 1
    /\ (m % 4 = 0) => a % 4 = 1

\* full-period conditions on x' = (a*x + c) mod m
FullPeriod(m, a, c) ==
    /\ Gcd(c, m) = 1
    /\ \A p \in 2 .. m : (IsPrime(p) /\ m % p = 0) => a % p = 1
    /\ (m % 4 = 0) => a % 4 = 1

\* modulus, multiplier and increment the walk may derive for n values
WalkParams(n) ==
    {q \in UNION {[m : {mm}, a : 1 .. mm, c : 0 .. (mm - 1)] : mm \in n .. (n + MaxPad)} :
        FullPeriod(q.m, q.a, q.c)}

Idle == [st |-> "idle", start |-> 0, n |-> 0, m |-> 1, a |-> 1, c |-> 0,
         x |-> 0, steps |-> 0, out |-> <<>>]

\* the walk right after construction over n values, from a seed in [0, m)
WalkStart(start, n, q, seed) ==
    IF n = 1
    THEN [st |-> "done", start |-> start, n |-> n, m |-> q.m, a |-> q.a, c |-> q.c,
          x |-> seed, steps |-> 0, out |-> <<start>>]
    ELSE [st |-> "walking", start |-> start, n |-> n, m |-> q.m, a |-> q.a, c |-> q.c,
          x |-> seed, steps |-> 0, out |-> <<>>]

\* one step of the recurrence: emit x + start when x < n, then advance
WalkStep(w) ==
    LET out2 == IF w.x < w.n THEN Append(w.out, w.x + w.start) ELSE w.out
        steps2 == w.steps + 1
    IN [w EXCEPT !.out = out2,
                 !.steps = steps2,
                 !.x = (w.a * w.x + w.c) % w.m,
                 !.st = IF Len(out2) = w.n \/ steps2 = w.m THEN "done" ELSE "walking"]

RECURSIVE WalkRun(_)
WalkRun(w) == IF w.st = "done" THEN w.out ELSE WalkRun(WalkStep(w))

\* every sequence RangeIterator::new(start, end).collect() may yield
RangeIteratorCollect(start, end) ==
    LET n == end - start + 1
    IN {WalkRun(WalkStart(start, n, q, seed)) : <<q, seed>> \in
            {qs \in WalkParams(n) \X (0 .. (n + MaxPad - 1)) : qs[2] < qs[1].m}}

\* the same, tabulated once for the well-formed ranges of the model
Collected ==
    [start \in PortVals |->
        [end \in {e \in PortVals : start <= e /\ <<start, e>> \in Ranges} |->
            RangeIteratorCollect(start, end)]]

(* ------------------------ RandomRange::generate ----------------------- *)
Panic == [ok |-> FALSE]
Ok(v) == [ok |-> TRUE, v |-> v]

\* a map that collects the first range only
AllPortsFirstOnly(ranges) ==
    IF ranges = <<>> THEN {<<>>}
    ELSE Collected[Head(ranges)[1]][Head(ranges)[2]]

\* the concatenations the flat_map over the ranges may collect
RECURSIVE AllPorts(_)
AllPorts(ranges) ==
    IF ranges = <<>> THEN {<<>>}
    ELSE {h \o t : h \in Collected[Head(ranges)[1]][Head(ranges)[2]], t \in AllPorts(Tail(ranges))}

\* RangeIterator::new rejects an interval with no value (start > end)
RangeIteratorNewFails(start, end) == end - start + 1 < 1

\* collect every range through its RangeIterator, then shuffle the whole
RandomGenerate(ranges) ==
    IF \E i \in 1 .. Len(ranges) : RangeIteratorNewFails(ranges[i][1], ranges[i][2])
    THEN {Panic}
    ELSE {Ok(p) : p \in UNION {Shuffle(all) : all \in AllPorts(ranges)}}

(* ------------------------------- state -------------------------------- *)
VARIABLES
    range,      \* pick's argument range: &Option<PortRange>
    ports,      \* pick's argument ports: Option<Vec<u16>>
    order,      \* pick's argument order: ScanOrder
    strategy,   \* the PortStrategy pick returned
    pc,         \* "start", "picked", "pick_panic", "order_panic"
    first,      \* what the first order() call returned
    result,     \* what the latest order() call returned
    calls,      \* order() calls made
    it          \* the RangeIterator under study

vars == <<range, ports, order, strategy, pc, first, result, calls, it>>

Unbuilt == [tag |-> "Unbuilt"]
Manual(p) == [tag |-> "Manual", ports |-> p]

Init ==
    /\ order \in ScanOrder
    /\ \/ /\ ports = None
          /\ range \in {None} \cup {Some(rs) : rs \in RangeSets}
       \/ /\ ports \in {Some(p) : p \in PortLists}
          /\ range \in {None} \cup {Some(<<r>>) : r \in SpareRanges}
    /\ strategy = Unbuilt
    /\ pc = "start"
    /\ first = None
    /\ result = None
    /\ calls = 0
    /\ it = Idle

(* --------------------------- PortStrategy::pick ----------------------- *)
\* Option::unwrap_or_default on the range argument
PickUnwrapOrDefault(tag) ==
    /\ strategy' = [tag |-> tag, ranges |-> IF range.some THEN range.v ELSE <<>>]
    /\ pc' = "picked"

\* Option::unwrap on the range argument
PickUnwrapRange(tag) ==
    IF range.some
    THEN /\ strategy' = [tag |-> tag, ranges |-> range.v]
         /\ pc' = "picked"
    ELSE /\ strategy' = strategy
         /\ pc' = "pick_panic"

PickSerialRange ==
    /\ pc = "start"
    /\ order = "Serial" /\ ~ports.some
    /\ PickUnwrapRange("Serial")
    /\ UNCHANGED <<range, ports, order, first, result, calls, it>>

PickRandomRange ==
    /\ pc = "start"
    /\ order = "Random" /\ ~ports.some
    /\ PickUnwrapRange("Random")
    /\ UNCHANGED <<range, ports, order, first, result, calls, it>>

\* the Serial arm shuffling as the Random arm does
PickManualSerialShuffled ==
    /\ pc = "start"
    /\ order = "Serial" /\ ports.some
    /\ \E p \in Shuffle(ports.v) : strategy' = Manual(p)
    /\ pc' = "picked"
    /\ UNCHANGED <<range, ports, order, first, result, calls, it>>

PickManualSerial ==
    /\ pc = "start"
    /\ order = "Serial" /\ ports.some
    /\ strategy' = Manual(ports.v)
    /\ pc' = "picked"
    /\ UNCHANGED <<range, ports, order, first, result, calls, it>>

PickManualRandom ==
    /\ pc = "start"
    /\ order = "Random" /\ ports.some
    /\ \E p \in Shuffle(ports.v) : strategy' = Manual(p)
    /\ pc' = "picked"
    /\ UNCHANGED <<range, ports, order, first, result, calls, it>>

(* -------------------------- PortStrategy::order ----------------------- *)
Returned(r) ==
    /\ IF r.ok
       THEN /\ result' = Some(r.v)
            /\ first' = IF calls = 0 THEN Some(r.v) ELSE first
            /\ pc' = pc
       ELSE /\ UNCHANGED <<result, first>>
            /\ pc' = "order_panic"
    /\ calls' = calls + 1
    /\ UNCHANGED <<range, ports, order, strategy, it>>

\* a Manual arm that shuffles on every order() call
OrderManualReshuffle ==
    /\ pc = "picked" /\ calls < MaxCalls
    /\ strategy.tag = "Manual"
    /\ \E p \in Shuffle(strategy.ports) : Returned(Ok(p))

OrderManual ==
    /\ pc = "picked" /\ calls < MaxCalls
    /\ strategy.tag = "Manual"
    /\ Returned(Ok(strategy.ports))

OrderSerial ==
    /\ pc = "picked" /\ calls < MaxCalls
    /\ strategy.tag = "Serial"
    /\ Returned(Ok(SerialGenerate(strategy.ranges)))

OrderRandom ==
    /\ pc = "picked" /\ calls < MaxCalls
    /\ strategy.tag = "Random"
    /\ \E r \in RandomGenerate(strategy.ranges) : Returned(r)

Next ==
    \/ PickSerialRange
    \/ PickRandomRange
    \/ PickManualSerial
    \/ PickManualRandom
    \/ OrderManual
    \/ OrderSerial
    \/ OrderRandom

Spec == Init /\ [][Next]_vars

(* ---------------- the permutation walk, one step at a time ------------ *)
WalkInit ==
    /\ range = None /\ ports = None /\ order = "Random"
    /\ strategy = Unbuilt /\ pc = "start"
    /\ first = None /\ result = None /\ calls = 0
    /\ \E r \in Ranges :
          it = [Idle EXCEPT !.st = "args", !.start = r[1], !.n = r[2] - r[1] + 1]

\* RangeIterator::new: n = end - start + 1 must be at least 1
IterNew ==
    /\ it.st = "args"
    /\ IF RangeIteratorNewFails(it.start, it.start + it.n - 1)
       THEN it' = [it EXCEPT !.st = "panic"]
       ELSE \E q \in WalkParams(it.n) : \E seed \in 0 .. (q.m - 1) :
               it' = WalkStart(it.start, it.n, q, seed)
    /\ UNCHANGED <<range, ports, order, strategy, pc, first, result, calls>>

\* Iterator::next, one step of the recurrence
IterNext ==
    /\ it.st = "walking"
    /\ it' = WalkStep(it)
    /\ UNCHANGED <<range, ports, order, strategy, pc, first, result, calls>>

WalkNext == IterNew \/ IterNext

SpecWalk == WalkInit /\ [][WalkNext]_vars

(* ===================== properties of the selector ===================== *)
\* insertion of v into an ascending sequence
RECURSIVE Insert(_, _)
Insert(v, s) ==
    IF s = <<>> THEN <<v>>
    ELSE IF v <= Head(s) THEN <<v>> \o s
    ELSE <<Head(s)>> \o Insert(v, Tail(s))

RECURSIVE Sorted(_)
Sorted(s) == IF s = <<>> THEN <<>> ELSE Insert(Head(s), Sorted(Tail(s)))

\* the ascending list start, start+1, ..., end
Ascending(start, end) == [i \in 1 .. (end - start + 1) |-> start + i - 1]

RECURSIVE ConcatAscending(_)
ConcatAscending(rs) ==
    IF rs = <<>> THEN <<>>
    ELSE Ascending(Head(rs)[1], Head(rs)[2]) \o ConcatAscending(Tail(rs))

WellFormed(rs) == \A i \in 1 .. Len(rs) : rs[i][1] <= rs[i][2]
HasInverted(rs) == \E i \in 1 .. Len(rs) : rs[i][1] > rs[i][2]

Count(s, v) == Cardinality({i \in 1 .. Len(s) : s[i] = v})
NoDuplicates(s) == \A i, j \in 1 .. Len(s) : s[i] = s[j] => i = j
Covering(rs, v) == Cardinality({i \in 1 .. Len(rs) : rs[i][1] <= v /\ v <= rs[i][2]})

ByRanges == strategy.tag \in {"Serial", "Random"}

Th_C2 ==
    (strategy.tag = "Random" /\ WellFormed(strategy.ranges)) =>
        /\ ~ports.some /\ range.some /\ strategy.ranges = range.v
        /\ pc = "picked"
        /\ result.some => Sorted(result.v) = Sorted(ConcatAscending(range.v))

Wit_C2 ==
    /\ strategy.tag = "Random" /\ result.some
    /\ Len(strategy.ranges) = 2 /\ WellFormed(strategy.ranges)
    /\ Len(result.v) >= 3
    /\ result.v # ConcatAscending(strategy.ranges)
    /\ NoDuplicates(result.v)

\* the ports the strategy's data implies, in some order
Implied ==
    IF strategy.tag = "Manual" THEN strategy.ports ELSE ConcatAscending(strategy.ranges)

ValidData == strategy.tag = "Manual" \/ (ByRanges /\ WellFormed(strategy.ranges))

\* C3 as stated: for every variant and every valid input, overlapping or
\* repeated ranges included, order() returns as many ports as the data
\* implies, none of them twice and none outside the configured bounds.
CE_C3 ==
    (ValidData /\ result.some) =>
        /\ Len(result.v) = Len(Implied)
        /\ NoDuplicates(result.v)
        /\ \A i \in 1 .. Len(result.v) : Count(Implied, result.v[i]) > 0

\* C3 amended: order() returns as many ports as the data implies and every
\* port exactly as often as the data implies it: once per range that
\* contains it, or once per occurrence in the explicit list. No port outside
\* the configured bounds appears; a port is repeated exactly when ranges
\* overlap or the explicit list repeats it.
Th_C3 ==
    (ValidData /\ result.some) =>
        /\ Len(result.v) = Len(Implied)
        /\ \A v \in PortVals :
              Count(result.v, v) =
                  IF strategy.tag = "Manual" THEN Count(ports.v, v)
                  ELSE Covering(strategy.ranges, v)
        /\ \A i \in 1 .. Len(result.v) : result.v[i] \in PortVals

Wit_C3 ==
    /\ strategy.tag = "Serial" /\ result.some
    /\ WellFormed(strategy.ranges) /\ Len(strategy.ranges) = 2
    /\ strategy.ranges[1] # strategy.ranges[2]
    /\ ~NoDuplicates(result.v)

\* C4: pick with an explicit port list P and ScanOrder Serial returns
\* Manual(P), with or without a RangeSet, and order() returns P unchanged.
Th_C4 ==
    (pc # "start" /\ ports.some /\ order = "Serial") =>
        /\ strategy = Manual(ports.v)
        /\ pc = "picked"
        /\ result.some => result.v = ports.v

Wit_C4 ==
    /\ ports.some /\ order = "Serial" /\ range.some
    /\ result.some /\ result.v = <<2, 1, U16Max>>

\* C5: pick with an explicit port list P and ScanOrder Random yields, for
\* every outcome of the shuffle, an order() that is a permutation of P:
\* sorted, it equals P sorted.
Th_C5 ==
    (pc # "start" /\ ports.some /\ order = "Random") =>
        /\ strategy.tag = "Manual"
        /\ pc = "picked"
        /\ Sorted(strategy.ports) = Sorted(ports.v)
        /\ result.some => Sorted(result.v) = Sorted(ports.v)

Wit_C5 ==
    /\ ports.some /\ order = "Random" /\ result.some
    /\ Len(ports.v) >= 3 /\ ports.v[1] = ports.v[2]
    /\ result.v # ports.v

\* C7: pick fails, returning no strategy, when neither explicit ports nor
\* ranges are given, under Serial and under Random; it never fails when
\* explicit ports are given.
Th_C7 ==
    /\ (pc # "start" /\ ~ports.some /\ ~range.some) =>
            (pc = "pick_panic" /\ strategy = Unbuilt /\ ~result.some)
    /\ ports.some => pc # "pick_panic"
    /\ pc = "pick_panic" => (~ports.some /\ ~range.some)

Wit_C7 == pc = "pick_panic" /\ order = "Random" /\ ~ports.some /\ ~range.some

\* C8 as stated: order() on a Serial or Random strategy whose RangeSet holds
\* a range with start > end fails instead of returning a sequence.
CE_C8 ==
    (ByRanges /\ HasInverted(strategy.ranges) /\ calls > 0) => pc = "order_panic"

ValidOnly(rs) == SelectSeq(rs, LAMBDA r : r[1] <= r[2])

\* C8 amended: order() on a Random strategy whose RangeSet holds a range with
\* start > end fails; on a Serial strategy it does not fail: the inverted
\* range contributes no port and the other ranges are emitted as usual.
Th_C8 ==
    (ByRanges /\ HasInverted(strategy.ranges) /\ calls > 0) =>
        IF strategy.tag = "Random"
        THEN pc = "order_panic" /\ ~result.some
        ELSE /\ pc = "picked"
             /\ result.some
             /\ result.v = ConcatAscending(ValidOnly(strategy.ranges))

Wit_C8 ==
    /\ strategy.tag = "Serial" /\ HasInverted(strategy.ranges) /\ calls > 0
    /\ result.some /\ Len(result.v) >= 2

\* the inputs of the two tests, with the model's lengths
TestRange == range.some /\ ~ports.some /\ Len(range.v) = 1
                /\ range.v[1][1] = 1 /\ range.v[1][2] > 1
TestPorts == ports.some /\ Len(ports.v) > 1 /\ ports.v = Ascending(1, Len(ports.v))

Th_C10 ==
    /\ [][pc = "picked" => strategy' = strategy]_vars
    /\ []((strategy.tag \in {"Manual", "Serial"} /\ result.some) => result = first)
    /\ []((strategy.tag = "Random" /\ result.some) =>
              (first.some /\ Sorted(result.v) = Sorted(first.v)))

Wit_C10 ==
    /\ strategy.tag = "Random" /\ calls >= 2 /\ result.some
    /\ result # first
    /\ strategy.ranges = range.v

(* ======================= properties of the walk ======================= *)
\* C6: the walk over n >= 1 values stops within m steps of the recurrence
\* having emitted exactly n values, pairwise distinct, each in [start, end],
\* never a residue >= n; for n = 1 it yields [start].
Th_C6 ==
    (it.st \in {"walking", "done"}) =>
        /\ it.n >= 1 /\ it.m >= it.n
        /\ it.steps <= it.m
        /\ NoDuplicates(it.out)
        /\ \A i \in 1 .. Len(it.out) :
              it.start <= it.out[i] /\ it.out[i] <= it.start + it.n - 1
        /\ it.st = "done" => Len(it.out) = it.n
        /\ it.st = "walking" => Len(it.out) < it.n
        /\ (it.n = 1) => (it.st = "done" /\ it.out = <<it.start>>)

Wit_C6 ==
    /\ it.st = "done" /\ it.n >= 2 /\ it.m > it.n /\ it.a > 1
    /\ it.steps > it.n
    /\ it.start = U16Max - 1 /\ it.out = <<U16Max, U16Max - 1>>

====
